---- MODULE Spec2Model ----
(***************************************************************************)
(* A model of gba-from-scratch: the boot trampoline and interrupt entry    *)
(* stub of src/asm_runtime.rs, the `_start` of src/lib.rs, the main loop   *)
(* of examples/ex2.rs, and the bit-packed register values and register     *)
(* families of src/lib.rs.                                                 *)
(*                                                                         *)
(* Registers hold signed 32-bit values (the conditions GE and GT of the    *)
(* loops are signed).  Memory is word-addressed at byte addresses that are *)
(* multiples of 4.                                                         *)
(***************************************************************************)
EXTENDS Integers, Sequences, FiniteSets, TLC

VARIABLES
  which,      \* which `_start` is linked: "asm_runtime" or "lib"
  layout,     \* the linker's byte counts: [iwram |-> c, ewram |-> c, bss |-> c]
  fill,       \* what RAM and the registers hold at reset
  pc,         \* <<phase, instruction>>
  r0, r1, r2, r3, r12,
  flagN, flagZ, flagV,
  mem,        \* word address -> word
  written,    \* word addresses stored to by the phase in progress
  dispcnt, backdrop, k,   \* DISPCNT, BACKDROP, the last KEYINPUT read
  ie, iflags, \* interrupt enable and interrupt request flags
  saved_pc,   \* where the interrupted program resumes
  obj, last,  \* an ObjAttr and the arguments its builders were last given
  disp, calls,\* a DisplayControl and the builder calls that made it
  rgbArgs, color,          \* Color::rgb's arguments and result
  keys, button, pressed,   \* a KeyInput, the button queried, the answer
  series, index, target    \* a register family, an index, the address

bootVars == <<which, layout, fill, pc, r0, r1, r2, r3, r12, flagN, flagZ,
              flagV, mem, written, dispcnt, backdrop, k, ie, iflags,
              saved_pc>>
objVars == <<obj, last>>
dispVars == <<disp, calls>>
colorVars == <<rgbArgs, color>>
keyVars == <<keys, button, pressed>>
addrVars == <<series, index, target>>
vars == <<bootVars, objVars, dispVars, colorVars, keyVars, addrVars>>

----------------------------------------------------------------------------
(* Bounds *)

\* the largest byte count the linker gives a region
MaxCount == 8

----------------------------------------------------------------------------
(* 16-bit and 32-bit arithmetic *)

U16_MAX == 65535
I32_MIN == -2147483647 - 1

RECURSIVE Pow2(_)
Pow2(n) == IF n = 0 THEN 1 ELSE 2 * Pow2(n - 1)

\* bit n of a non-negative integer
Bit(a, n) == (a \div Pow2(n)) % 2

RECURSIVE BitAndN(_, _, _)
BitAndN(a, b, n) ==
  IF n = 0 THEN 0
  ELSE (a % 2) * (b % 2) + 2 * BitAndN(a \div 2, b \div 2, n - 1)

RECURSIVE BitOrN(_, _, _)
BitOrN(a, b, n) ==
  IF n = 0 THEN 0
  ELSE (IF a % 2 = 1 \/ b % 2 = 1 THEN 1 ELSE 0)
       + 2 * BitOrN(a \div 2, b \div 2, n - 1)

\* u16 & | ! << >> and the cast `as u16`
And16(a, b) == BitAndN(a, b, 16)
Or16(a, b) == BitOrN(a, b, 16)
Not16(a) == U16_MAX - a
Shl16(a, n) == (a * Pow2(n)) % (U16_MAX + 1)
Shr16(a, n) == a \div Pow2(n)
AsU16(x) == x % (U16_MAX + 1)

\* 32-bit subtraction of a small constant, wrapping, on signed values
Sub32(a, c) ==
  IF a < I32_MIN + c THEN ((a + (2147483647 - c + 1)) + 2147483647) + 1
  ELSE a - c
\* the V flag of `subs a, a, #c` (c > 0): signed overflow
SubOverflows(a, c) == a < I32_MIN + c

----------------------------------------------------------------------------
(* bitfrob, as src/lib.rs uses it *)

\* the bits low ..= high set
u16_mask(low, high) == Pow2(high + 1) - Pow2(low)

u16_get_bit(bit, u) == And16(Shr16(u, bit), 1) /= 0

u16_with_bit(bit, u, is_set) ==
  IF is_set THEN Or16(u, Shl16(1, bit))
  ELSE And16(u, Not16(Shl16(1, bit)))

u16_with_value(low, high, old, new) ==
  Or16(And16(old, Not16(u16_mask(low, high))),
       And16(Shl16(new, low), u16_mask(low, high)))

----------------------------------------------------------------------------
(* src/lib.rs: the object attribute words *)

ObjAttr0_new == 0
ObjAttr0_with_y(self, y) == u16_with_value(0, 7, self, AsU16(y))

ObjAttr1_new == 0
ObjAttr1_with_size(self, size) == u16_with_value(14, 15, self, size)
ObjAttr1_with_x_wide(self, x) == u16_with_value(0, 10, self, AsU16(x))
ObjAttr1_with_x(self, x) == u16_with_value(0, 9, self, AsU16(x))

ObjAttr2_new == 0
ObjAttr2_with_tile(self, tile) == u16_with_value(0, 9, self, tile)

\* ObjAttr(ObjAttr0, ObjAttr1, ObjAttr2) is the tuple <<a0, a1, a2>>
ObjAttr_new == <<ObjAttr0_new, ObjAttr1_new, ObjAttr2_new>>
ObjAttr_with_size(self, size) ==
  <<self[1], ObjAttr1_with_size(self[2], size), self[3]>>
ObjAttr_with_tile(self, tile) ==
  <<self[1], self[2], ObjAttr2_with_tile(self[3], tile)>>
ObjAttr_with_x(self, x) ==
  <<self[1], ObjAttr1_with_x(self[2], x), self[3]>>
ObjAttr_with_y(self, y) ==
  <<ObjAttr0_with_y(self[1], y), self[2], self[3]>>

----------------------------------------------------------------------------
(* src/lib.rs: Color *)

Color_rgb(r, g, b) == Or16(Or16(r, Shl16(g, 5)), Shl16(b, 10))
Color_GREEN == Color_rgb(0, 31, 0)
Color_RED == Color_rgb(31, 0, 0)

----------------------------------------------------------------------------
(* src/lib.rs: KeyInput *)

Buttons ==
  <<"a", "b", "select", "start", "right", "left", "up", "down", "r", "l">>

KeyInput_a(self) == ~u16_get_bit(0, self)
KeyInput_b(self) == ~u16_get_bit(1, self)
KeyInput_select(self) == ~u16_get_bit(2, self)
KeyInput_start(self) == ~u16_get_bit(3, self)
KeyInput_right(self) == ~u16_get_bit(4, self)
KeyInput_left(self) == ~u16_get_bit(5, self)
KeyInput_up(self) == ~u16_get_bit(6, self)
KeyInput_down(self) == ~u16_get_bit(7, self)
KeyInput_r(self) == ~u16_get_bit(8, self)
KeyInput_l_bit8(self) == ~u16_get_bit(8, self)
KeyInput_l(self) == ~u16_get_bit(9, self)

\* the query method named `name`
KeyInput_query(name, self) ==
  CASE name = "a" -> KeyInput_a(self)
    [] name = "b" -> KeyInput_b(self)
    [] name = "select" -> KeyInput_select(self)
    [] name = "start" -> KeyInput_start(self)
    [] name = "right" -> KeyInput_right(self)
    [] name = "left" -> KeyInput_left(self)
    [] name = "up" -> KeyInput_up(self)
    [] name = "down" -> KeyInput_down(self)
    [] name = "r" -> KeyInput_r(self)
    [] name = "l" -> KeyInput_l(self)

----------------------------------------------------------------------------
(* src/lib.rs: DisplayControl *)

DisplayControl_new == 0
DisplayControl_with_linear_obj_tiles(self, linear) ==
  u16_with_bit(6, self, linear)
DisplayControl_with_forced_blank_bit6(self, blank) ==
  u16_with_bit(6, self, blank)
DisplayControl_with_forced_blank(self, blank) == u16_with_bit(7, self, blank)
DisplayControl_with_objects(self, objects) == u16_with_bit(12, self, objects)

----------------------------------------------------------------------------
(* src/lib.rs: the object attribute table *)

\* voladdress: the element `i` of a series of `count` elements `stride`
\* bytes apart
VolSeries_index(base, count, stride, i) == base + i * stride

OAM_BASE == 117440512
OBJ_ATTRS_count == 128
OBJ_ATTRS_stride == 64

\* the four series: their base addresses
SeriesNames == {"OBJ_ATTRS", "OBJ_ATTRS_0", "OBJ_ATTRS_1", "OBJ_ATTRS_2"}
SeriesBase(name) ==
  CASE name = "OBJ_ATTRS" -> OAM_BASE
    [] name = "OBJ_ATTRS_0" -> OAM_BASE
    [] name = "OBJ_ATTRS_1" -> OAM_BASE + 2
    [] name = "OBJ_ATTRS_2" -> OAM_BASE + 4
SeriesIndex(name, i) ==
  VolSeries_index(SeriesBase(name), OBJ_ATTRS_count, OBJ_ATTRS_stride, i)

----------------------------------------------------------------------------
(* The memory the boot code touches.  The linker supplies the symbols; the *)
(* values here follow the platform's memory map, each region RegionBytes   *)
(* long so that a word past the largest count is still modelled.           *)

RegionWords == MaxCount \div 4 + 2
RegionBytes == 4 * RegionWords

MMIO_BASE == 67108864
ewram_start == 33554432
iwram_start == 50331648
bss_start == iwram_start + RegionBytes
asm_irq_handler == iwram_start + 2 * RegionBytes
iwram_position_in_rom == 134217728 + 4096
ewram_position_in_rom == iwram_position_in_rom + RegionBytes
\* the word the BIOS reads the handler's address from: [r12, #-4]
IrqVectorSlot == MMIO_BASE - 4

RegionAddrs(start) == {start + 4 * j : j \in 0 .. RegionWords - 1}
RomAddrs ==
  RegionAddrs(iwram_position_in_rom) \cup RegionAddrs(ewram_position_in_rom)
RamAddrs ==
  RegionAddrs(iwram_start) \cup RegionAddrs(ewram_start)
    \cup RegionAddrs(bss_start) \cup {IrqVectorSlot}
Addrs == RomAddrs \cup RamAddrs

\* what the ROM image holds at address a: never 0, never FillVals
RomWord(a) == ((a \div 4) % 4096) + 16

\* what RAM and the registers may hold at reset
FillVals == {0, 3}

Regions == {"iwram", "ewram"}
Dest(rg) == IF rg = "iwram" THEN iwram_start ELSE ewram_start
Src(rg) ==
  IF rg = "iwram" THEN iwram_position_in_rom ELSE ewram_position_in_rom
Count(rg) == layout[rg]

\* a store: to modelled memory, or to an address the model does not hold
Store(m, a, v) == IF a \in DOMAIN m THEN [m EXCEPT ![a] = v] ELSE m
Load(m, a) == IF a \in DOMAIN m THEN m[a] ELSE fill

\* the conditions of the conditional instructions
CondGE_strict == ~flagZ /\ flagN = flagV
CondGE == flagN = flagV
CondGT == ~flagZ /\ flagN = flagV

regs == <<r0, r1, r2, r3, r12>>
flags == <<flagN, flagZ, flagV>>
config == <<which, layout, fill, ie>>
mmio == <<dispcnt, backdrop, k>>
irqState == <<iflags, saved_pc>>
pureVars == <<objVars, dispVars, colorVars, keyVars, addrVars>>

----------------------------------------------------------------------------
(* src/asm_runtime.rs: _start *)

\* blank_header_space: `b 1f` over the 0xE0 bytes of header
SkipHeader ==
  /\ pc = <<"header", "b">>
  /\ pc' = IF which = "asm_runtime" THEN <<"iwram", "load">>
           ELSE <<"call", "bx">>
  /\ UNCHANGED <<config, regs, flags, mem, written, mmio, irqState, pureVars>>

\* the phase after the copy of region rg
AfterCopy(rg) == IF rg = "iwram" THEN "ewram" ELSE "bss"

\* copy_words_r0r1r2r3: ldr r0, =dest; ldr r1, =src; ldr r2, =count
CopyLoad(rg) ==
  /\ pc = <<rg, "load">>
  /\ r0' = Dest(rg)
  /\ r1' = Src(rg)
  /\ r2' = Count(rg)
  /\ written' = {}
  /\ pc' = <<rg, "subs">>
  /\ UNCHANGED <<config, r3, r12, flags, mem, mmio, irqState, pureVars>>

\* subs r2, r2, #4
CopySubs(rg) ==
  /\ pc = <<rg, "subs">>
  /\ r2' = Sub32(r2, 4)
  /\ flagN' = (r2' < 0)
  /\ flagZ' = (r2' = 0)
  /\ flagV' = SubOverflows(r2, 4)
  /\ pc' = <<rg, "ldrge">>
  /\ UNCHANGED <<config, r0, r1, r3, r12, mem, written, mmio, irqState,
                 pureVars>>

\* ldrge r3, [r1], #4
CopyLdrge(rg) ==
  /\ pc = <<rg, "ldrge">>
  /\ IF CondGE
       THEN r3' = Load(mem, r1) /\ r1' = r1 + 4
       ELSE UNCHANGED <<r1, r3>>
  /\ pc' = <<rg, "strge">>
  /\ UNCHANGED <<config, r0, r2, r12, flags, mem, written, mmio, irqState,
                 pureVars>>

\* strge r3, [r0], #4
CopyStrge(rg) ==
  /\ pc = <<rg, "strge">>
  /\ IF CondGE
       THEN /\ mem' = Store(mem, r0, r3)
            /\ written' = written \cup {r0}
            /\ r0' = r0 + 4
       ELSE UNCHANGED <<mem, written, r0>>
  /\ pc' = <<rg, "bgt">>
  /\ UNCHANGED <<config, r1, r2, r3, r12, flags, mmio, irqState, pureVars>>

\* bgt 1b
CopyBgt(rg) ==
  /\ pc = <<rg, "bgt">>
  /\ pc' = IF CondGT THEN <<rg, "subs">> ELSE <<AfterCopy(rg), "load">>
  /\ UNCHANGED <<config, regs, flags, mem, written, mmio, irqState, pureVars>>

\* zero_words_r0r1r2: ldr r0, =start; mov r1, #0; ldr r0, =count
\* (r0 is loaded twice, the second load overwriting the first; r2 is left as
\* the copy loops left it)
ZeroLoad ==
  /\ pc = <<"bss", "load">>
  /\ r0' = layout.bss
  /\ r1' = 0
  /\ written' = {}
  /\ pc' = <<"bss", "subs">>
  /\ UNCHANGED <<config, r2, r3, r12, flags, mem, mmio, irqState, pureVars>>

\* subs r2, r2, #4
ZeroSubs ==
  /\ pc = <<"bss", "subs">>
  /\ r2' = Sub32(r2, 4)
  /\ flagN' = (r2' < 0)
  /\ flagZ' = (r2' = 0)
  /\ flagV' = SubOverflows(r2, 4)
  /\ pc' = <<"bss", "strge">>
  /\ UNCHANGED <<config, r0, r1, r3, r12, mem, written, mmio, irqState,
                 pureVars>>

\* strge r1, [r0], #4
ZeroStrge ==
  /\ pc = <<"bss", "strge">>
  /\ IF CondGE
       THEN /\ mem' = Store(mem, r0, r1)
            /\ written' = written \cup {r0}
            /\ r0' = r0 + 4
       ELSE UNCHANGED <<mem, written, r0>>
  /\ pc' = <<"bss", "bgt">>
  /\ UNCHANGED <<config, r1, r2, r3, r12, flags, mmio, irqState, pureVars>>

\* bgt 1b
ZeroBgt ==
  /\ pc = <<"bss", "bgt">>
  /\ pc' = IF CondGT THEN <<"bss", "subs">> ELSE <<"irqvec", "str">>
  /\ UNCHANGED <<config, regs, flags, mem, written, mmio, irqState, pureVars>>

\* ldr r1, ={asm_irq_handler}; mov r12, #0x04000000; str r1, [r12, #-4]
SetIrqHandler ==
  /\ pc = <<"irqvec", "str">>
  /\ r1' = asm_irq_handler
  /\ r12' = MMIO_BASE
  /\ mem' = Store(mem, MMIO_BASE - 4, asm_irq_handler)
  /\ written' = {MMIO_BASE - 4}
  /\ pc' = <<"call", "bx">>
  /\ UNCHANGED <<config, r0, r2, r3, flags, mmio, irqState, pureVars>>

\* src/asm_runtime.rs: ldr r0, =main; bx r0
\* src/lib.rs:         ldr r12, =main; bx r12
\* (the address of main is not modelled: the register is left as it was)
CallMain ==
  /\ pc = <<"call", "bx">>
  /\ pc' = <<"main", "dispcnt">>
  /\ UNCHANGED <<config, regs, flags, mem, written, mmio, irqState, pureVars>>

----------------------------------------------------------------------------
(* Interrupts.  The program enables the sources in `ie`; the hardware      *)
(* raises request flags, and takes an enabled request before the next      *)
(* instruction of the program.  The BIOS saves the registers, calls the    *)
(* handler whose address is in IrqVectorSlot, and on its return resumes    *)
(* the program where it was interrupted.                                   *)

\* the source modelled is bit 0 of IE and IF; the program enables it or not
IrqSources == {0}
IeVals == {0, 1}

IrqPending == And16(ie, iflags) /= 0

\* the hardware raises the request flag of source s
RaiseIrq(s) ==
  /\ pc[1] = "main"
  /\ Bit(iflags, s) = 0
  /\ iflags' = Or16(iflags, Pow2(s))
  /\ UNCHANGED <<config, pc, regs, flags, mem, written, mmio, saved_pc,
                 pureVars>>

\* an enabled request is taken: the BIOS calls the installed handler
IrqEnter ==
  /\ pc[1] = "main"
  /\ IrqPending
  /\ Load(mem, IrqVectorSlot) = asm_irq_handler
  /\ saved_pc' = pc
  /\ pc' = <<"irq", "bx">>
  /\ UNCHANGED <<config, regs, flags, mem, written, mmio, iflags, pureVars>>

\* src/asm_runtime.rs: asm_irq_handler is `bx lr` and nothing else
AsmIrqHandler ==
  /\ pc = <<"irq", "bx">>
  /\ pc' = saved_pc
  /\ UNCHANGED <<config, regs, flags, mem, written, mmio, irqState, pureVars>>

----------------------------------------------------------------------------
(* examples/ex2.rs: main *)

\* where `loop { ... }` goes after its last statement
MainLoopBack_returns == <<"returned", "lr">>
MainLoopBack == <<"main", "read">>

\* DISPCNT.write(DisplayControl::new())
MainDispcnt ==
  /\ pc = <<"main", "dispcnt">>
  /\ ~IrqPending
  /\ dispcnt' = DisplayControl_new
  /\ pc' = <<"main", "read">>
  /\ UNCHANGED <<config, regs, flags, mem, written, backdrop, k, irqState,
                 pureVars>>

\* what KEYINPUT shows: A held, or no button held (bits 10-15 read as 0)
BootKeyVals == {1022, 1023}

\* let k = KEYINPUT.read()
MainRead ==
  /\ pc = <<"main", "read">>
  /\ ~IrqPending
  /\ \E v \in BootKeyVals : k' = v
  /\ pc' = <<"main", "write">>
  /\ UNCHANGED <<config, regs, flags, mem, written, dispcnt, backdrop,
                 irqState, pureVars>>

\* BACKDROP.write(if k.a() { Color::RED } else { Color::GREEN })
MainWrite ==
  /\ pc = <<"main", "write">>
  /\ ~IrqPending
  /\ backdrop' = IF KeyInput_a(k) THEN Color_RED ELSE Color_GREEN
  /\ pc' = MainLoopBack
  /\ UNCHANGED <<config, regs, flags, mem, written, dispcnt, k, irqState,
                 pureVars>>

----------------------------------------------------------------------------
(* The boot specification *)

ObjIdle ==
  /\ obj = ObjAttr_new
  /\ last = [size |-> 0, tile |-> 0, x |-> 0, y |-> 0]
DispIdle == disp = DisplayControl_new /\ calls = <<>>
ColorIdle == rgbArgs = <<0, 0, 0>> /\ color = -1
KeyIdle == keys = 0 /\ button = "none" /\ pressed = FALSE
AddrIdle == series = "none" /\ index = 0 /\ target = -1
PureIdle == ObjIdle /\ DispIdle /\ ColorIdle /\ KeyIdle /\ AddrIdle

BootIdle ==
  /\ which = "none"
  /\ layout = [iwram |-> 0, ewram |-> 0, bss |-> 0]
  /\ fill = 0
  /\ pc = <<"off", "off">>
  /\ r0 = 0 /\ r1 = 0 /\ r2 = 0 /\ r3 = 0 /\ r12 = 0
  /\ flagN = FALSE /\ flagZ = FALSE /\ flagV = FALSE
  /\ mem = <<>>
  /\ written = {}
  /\ dispcnt = 0 /\ backdrop = 0 /\ k = 0
  /\ ie = 0 /\ iflags = 0
  /\ saved_pc = <<"off", "off">>

Init ==
  /\ which \in {"asm_runtime", "lib"}
  /\ layout \in [iwram : 0 .. MaxCount, ewram : 0 .. MaxCount,
                 bss : 0 .. MaxCount]
  /\ fill \in FillVals
  /\ ie \in IeVals
  \* interrupts are enabled only by programs that have a handler installed
  /\ which = "lib" => ie = 0
  /\ pc = <<"header", "b">>
  /\ r0 = fill /\ r1 = fill /\ r2 = fill /\ r3 = fill /\ r12 = fill
  /\ flagN = FALSE /\ flagZ = FALSE /\ flagV = FALSE
  /\ mem = [a \in Addrs |-> IF a \in RomAddrs THEN RomWord(a) ELSE fill]
  /\ written = {}
  /\ dispcnt = fill /\ backdrop = fill /\ k = 0
  /\ iflags = 0
  /\ saved_pc = <<"none", "none">>
  /\ PureIdle

Next ==
  \/ SkipHeader
  \/ \E rg \in Regions : CopyLoad(rg)
  \/ \E rg \in Regions : CopySubs(rg)
  \/ \E rg \in Regions : CopyLdrge(rg)
  \/ \E rg \in Regions : CopyStrge(rg)
  \/ \E rg \in Regions : CopyBgt(rg)
  \/ ZeroLoad
  \/ ZeroSubs
  \/ ZeroStrge
  \/ ZeroBgt
  \/ SetIrqHandler
  \/ CallMain
  \/ MainDispcnt
  \/ MainRead
  \/ MainWrite
  \/ \E s \in IrqSources : RaiseIrq(s)
  \/ IrqEnter
  \/ AsmIrqHandler

Spec == Init /\ [][Next]_vars

----------------------------------------------------------------------------
(* Claims about the boot specification *)

\* the destination words of region rg: the first n hold the ROM's words, the
\* rest are as they were at reset
CopiedPrefix(rg, n) ==
  \A j \in 0 .. RegionWords - 1 :
    mem[Dest(rg) + 4 * j] =
      IF j < n THEN RomWord(Src(rg) + 4 * j) ELSE fill
WordSet(start, n) == {start + 4 * j : j \in 0 .. n - 1}

\* the words of the region to clear: the first n are zero, the rest are as
\* they were at reset
ClearedPrefix(n) ==
  \A j \in 0 .. RegionWords - 1 :
    mem[bss_start + 4 * j] = IF j < n THEN 0 ELSE fill

\* C1: when the clear step has run with a byte count that is a multiple of
\* 4, exactly count/4 words from _bss_start on are zero and nothing else was
\* written by the step.
C1_WordClear ==
  (pc = <<"irqvec", "str">> /\ layout.bss % 4 = 0) =>
    /\ ClearedPrefix(layout.bss \div 4)
    /\ written = WordSet(bss_start, layout.bss \div 4)

\* C2: each copy loop copies exactly floor(c/4) words in ascending address
\* order, both pointers advancing by 4 per word: inside the loop the words
\* copied so far are a prefix of the region and the pointers stand right
\* after it; after the loop the prefix is floor(c/4) words long, and nothing
\* else was written (the trailing c mod 4 bytes included).
C2_WordCopy ==
  \A rg \in Regions :
    /\ (pc[1] = rg /\ pc[2] /= "load") =>
         LET n == (r0 - Dest(rg)) \div 4 IN
           /\ r0 = Dest(rg) + 4 * n
           /\ n \in 0 .. Count(rg) \div 4
           /\ r1 = Src(rg) + 4 * (IF pc[2] = "strge" /\ CondGE THEN n + 1
                                  ELSE n)
           /\ CopiedPrefix(rg, n)
           /\ written = WordSet(Dest(rg), n)
    /\ pc = <<AfterCopy(rg), "load">> =>
         /\ r0 = Dest(rg) + 4 * (Count(rg) \div 4)
         /\ r1 = Src(rg) + 4 * (Count(rg) \div 4)
         /\ CopiedPrefix(rg, Count(rg) \div 4)
         /\ written = WordSet(Dest(rg), Count(rg) \div 4)
    /\ (rg = "iwram" /\ pc[1] \in {"ewram", "bss"}) =>
         CopiedPrefix(rg, Count(rg) \div 4)

\* C2's case: both copies are over, one of two whole words and one of a
\* whole word and a trailing byte
C2_Witness ==
  /\ pc = <<"bss", "load">>
  /\ layout.iwram = 8 /\ layout.ewram = 5
  /\ fill /= 0
  /\ mem[iwram_start + 4] = RomWord(iwram_position_in_rom + 4)
  /\ mem[ewram_start] = RomWord(ewram_position_in_rom)
  /\ mem[ewram_start + 4] = fill

\* C3: when main begins, both copies and the clear are over and the vector
\* slot holds the address of asm_irq_handler.
C3_BootOrder ==
  pc = <<"main", "dispcnt">> =>
    /\ \A rg \in Regions : CopiedPrefix(rg, Count(rg) \div 4)
    /\ ClearedPrefix(layout.bss \div 4)
    /\ mem[IrqVectorSlot] = asm_irq_handler

\* the program: main and whatever interrupts it
InProgram(p) == p[1] \in {"main", "irq"}

C10_IrqAcknowledged ==
  [][(pc = <<"irq", "bx">> /\ pc' /= pc) => And16(ie', iflags') = 0]_vars

----------------------------------------------------------------------------
(* The sprite attribute builders, applied in any order to ObjAttr::new()   *)

\* arguments up to MaxSmall, and around each field's width
MaxSmall == 1
\* sizes 0 .. MaxSize
MaxSize == 4

SizeVals == 0 .. MaxSize
TileVals == (0 .. MaxSmall) \cup {1023 + j : j \in 0 .. MaxSmall} \cup {U16_MAX}
XVals ==
  (-MaxSmall .. MaxSmall) \cup {10, 1023, 1024, 1034, -32768, 32767}
YVals ==
  (-MaxSmall .. MaxSmall) \cup {23, 255, 256, 279, -32768, 32767}

WithSize(size) ==
  /\ obj' = ObjAttr_with_size(obj, size)
  /\ last' = [last EXCEPT !.size = size]
  /\ UNCHANGED <<bootVars, dispVars, colorVars, keyVars, addrVars>>

WithTile(tile) ==
  /\ obj' = ObjAttr_with_tile(obj, tile)
  /\ last' = [last EXCEPT !.tile = tile]
  /\ UNCHANGED <<bootVars, dispVars, colorVars, keyVars, addrVars>>

WithX(x) ==
  /\ obj' = ObjAttr_with_x(obj, x)
  /\ last' = [last EXCEPT !.x = x]
  /\ UNCHANGED <<bootVars, dispVars, colorVars, keyVars, addrVars>>

WithY(y) ==
  /\ obj' = ObjAttr_with_y(obj, y)
  /\ last' = [last EXCEPT !.y = y]
  /\ UNCHANGED <<bootVars, dispVars, colorVars, keyVars, addrVars>>

InitObj == BootIdle /\ PureIdle

NextObj ==
  \/ \E size \in SizeVals : WithSize(size)
  \/ \E tile \in TileVals : WithTile(tile)
  \/ \E x \in XVals : WithX(x)
  \/ \E y \in YVals : WithY(y)

SpecObj == InitObj /\ [][NextObj]_vars

\* C7: whatever the order of the builder calls, the attribute re-extracts as
\* the masked argument each builder was last given (0 if it was not called),
\* and every bit outside the four fields is as new() left it.
C7_ObjAttrBuilders ==
  /\ obj[2] \div 16384 = last.size % 4
  /\ obj[2] % 1024 = last.x % 1024
  /\ (obj[2] \div 1024) % 16 = 0
  /\ obj[1] % 256 = last.y % 256
  /\ obj[1] \div 256 = 0
  /\ obj[3] % 1024 = last.tile % 1024
  /\ obj[3] \div 1024 = 0

\* C7's case: the attribute of examples/ex3.rs
C7_Witness ==
  /\ last = [size |-> 1, tile |-> 1, x |-> 10, y |-> 23]
  /\ obj = <<23, 16384 + 10, 1>>

----------------------------------------------------------------------------
(* The DisplayControl builders, applied in any sequence to new()           *)

\* builder calls in a sequence
MaxCalls == 3

WithLinearObjTiles(f) ==
  /\ Len(calls) < MaxCalls
  /\ disp' = DisplayControl_with_linear_obj_tiles(disp, f)
  /\ calls' = Append(calls, <<"with_linear_obj_tiles", f>>)
  /\ UNCHANGED <<bootVars, objVars, colorVars, keyVars, addrVars>>

WithForcedBlank(f) ==
  /\ Len(calls) < MaxCalls
  /\ disp' = DisplayControl_with_forced_blank(disp, f)
  /\ calls' = Append(calls, <<"with_forced_blank", f>>)
  /\ UNCHANGED <<bootVars, objVars, colorVars, keyVars, addrVars>>

WithObjects(f) ==
  /\ Len(calls) < MaxCalls
  /\ disp' = DisplayControl_with_objects(disp, f)
  /\ calls' = Append(calls, <<"with_objects", f>>)
  /\ UNCHANGED <<bootVars, objVars, colorVars, keyVars, addrVars>>

InitDisp == BootIdle /\ PureIdle

NextDisp ==
  \/ \E f \in BOOLEAN : WithLinearObjTiles(f)
  \/ \E f \in BOOLEAN : WithForcedBlank(f)
  \/ \E f \in BOOLEAN : WithObjects(f)

SpecDisp == InitDisp /\ [][NextDisp]_vars

\* the flag most recently passed to builder `name`, 0 if it was never called
LatestFlag(name) ==
  LET is == {i \in 1 .. Len(calls) : calls[i][1] = name} IN
    IF is = {} THEN 0
    ELSE LET m == CHOOSE i \in is : \A j \in is : j <= i IN
           IF calls[m][2] THEN 1 ELSE 0

\* C8: after any sequence of builder calls, bits 6, 7 and 12 of the raw
\* value are the flags most recently passed to with_linear_obj_tiles,
\* with_forced_blank and with_objects, and every other bit is 0.
C8_DisplayControlFlags ==
  disp = 64 * LatestFlag("with_linear_obj_tiles")
         + 128 * LatestFlag("with_forced_blank")
         + 4096 * LatestFlag("with_objects")

\* C8's case: JUST_OBJECTS_LINEAR of examples/ex3.rs
C8_Witness ==
  /\ calls = <<<<"with_objects", TRUE>>, <<"with_linear_obj_tiles", TRUE>>>>
  /\ disp = 4160

----------------------------------------------------------------------------
(* Color::rgb on arguments of any width                                    *)

\* channel arguments 0 .. MaxChan
MaxChan == 33

ApplyRgb ==
  /\ color = -1
  /\ color' = Color_rgb(rgbArgs[1], rgbArgs[2], rgbArgs[3])
  /\ UNCHANGED <<bootVars, objVars, dispVars, rgbArgs, keyVars, addrVars>>

InitColor ==
  /\ BootIdle /\ ObjIdle /\ DispIdle /\ KeyIdle /\ AddrIdle
  /\ rgbArgs \in (0 .. MaxChan) \X (0 .. MaxChan) \X (0 .. MaxChan)
  /\ color = -1

NextColor == ApplyRgb

SpecColor == InitColor /\ [][NextColor]_vars

\* C5: bits 0-4, 5-9 and 10-14 of rgb(r, g, b) are r & 31, g & 31 and
\* b & 31, and bit 15 is 0.
C5_ColorRoundTrip ==
  color /= -1 =>
    /\ color % 32 = rgbArgs[1] % 32
    /\ (color \div 32) % 32 = rgbArgs[2] % 32
    /\ (color \div 1024) % 32 = rgbArgs[3] % 32
    /\ color \div 32768 = 0

----------------------------------------------------------------------------
(* The KeyInput queries on every 16-bit value                              *)

QueryButton(n) ==
  /\ button = "none"
  /\ button' = Buttons[n]
  /\ pressed' = KeyInput_query(Buttons[n], keys)
  /\ UNCHANGED <<bootVars, objVars, dispVars, colorVars, keys, addrVars>>

InitKey ==
  /\ BootIdle /\ ObjIdle /\ DispIdle /\ ColorIdle /\ AddrIdle
  /\ keys \in 0 .. U16_MAX
  /\ button = "none"
  /\ pressed = FALSE

NextKey == \E n \in 1 .. Len(Buttons) : QueryButton(n)

SpecKey == InitKey /\ [][NextKey]_vars

\* the bit the claim gives each button
ClaimedBit ==
  [a |-> 0, b |-> 1, select |-> 2, start |-> 3, right |-> 4, left |-> 5,
   up |-> 6, down |-> 7, r |-> 8, l |-> 9]

\* C9: a button's query answers "pressed" exactly when the button's bit of
\* the raw value is 0, whatever the other bits are.
C9_KeyActiveLow ==
  button /= "none" => (pressed <=> Bit(keys, ClaimedBit[button]) = 0)

\* C9's case: L alone is held, bits 10-15 are set, and L is asked for
C9_Witness ==
  /\ keys = U16_MAX - 512
  /\ button = "l"
  /\ pressed

----------------------------------------------------------------------------
(* The object attribute table's addresses                                  *)

IndexSeries ==
  /\ target = -1
  /\ target' = SeriesIndex(series, index)
  /\ UNCHANGED <<bootVars, objVars, dispVars, colorVars, keyVars, series,
                 index>>

InitAddr ==
  /\ BootIdle /\ ObjIdle /\ DispIdle /\ ColorIdle /\ KeyIdle
  /\ series \in SeriesNames
  /\ index \in 0 .. OBJ_ATTRS_count - 1
  /\ target = -1

NextAddr == IndexSeries

SpecAddr == InitAddr /\ [][NextAddr]_vars

\* the byte offset the claim gives each series within an entry
ClaimedOffset ==
  [OBJ_ATTRS |-> 0, OBJ_ATTRS_0 |-> 0, OBJ_ATTRS_1 |-> 2, OBJ_ATTRS_2 |-> 4]

\* C4: index(i) of each series targets 0x0700_0000 + i * 8 + the series'
\* offset.
C4_ObjAttrAddress ==
  target /= -1 => target = 117440512 + index * 8 + ClaimedOffset[series]

====
